---------------------------- MODULE Spec2Model ----------------------------
(* A model of commoner (src/src/lib.rs): the Url and ContentType value     *)
(* types with their string conversions, Fetcher::exec and the two fetch    *)
(* operations built on it, and the CDXQuerier setters.                      *)
(*                                                                          *)
(* Strings are sequences of lexemes: a URL string is a sequence over the    *)
(* scheme lexemes, "/", "?", host names and path characters; a             *)
(* content-type string is a sequence over the media-type lexemes. Each     *)
(* conversion is computed on these sequences the way the code computes it  *)
(* on characters.                                                           *)
EXTENDS Integers, Sequences, FiniteSets, TLC

\* ------------------------------------------------------------- bounds
MaxRest == 3        \* lexemes after the host in an input URL string
MaxPath == 3        \* lexemes in the path of a Url value or a fetch path
MaxCTLen == 2       \* lexemes in an input content-type string
MaxItems == 2       \* elements of a JSON array in a response body
MaxFetchPath == 2   \* lexemes in the path of a fetched Url
MaxPage == 2        \* page numbers and page sizes passed to the setters

\* ------------------------------------------------------- small helpers
SeqsUpTo(S, n) == UNION { [1..k -> S] : k \in 0..n }

Ok(v) == [kind |-> "ok", val |-> v, err |-> "", code |-> 0]
Err(e) == [kind |-> "err", val |-> <<>>, err |-> e, code |-> 0]
ErrStatus(c) == [kind |-> "err", val |-> <<>>, err |-> "status code", code |-> c]
Panic == [kind |-> "panic", val |-> <<>>, err |-> "entered unreachable code", code |-> 0]
NoResult == [kind |-> "none", val |-> <<>>, err |-> "", code |-> 0]

\* ---------------------------------------------------------------- Url
CDX_HOST == "index.commoncrawl.org"
WARC_HOST == "commoncrawl.s3.amazonaws.com"

\* CollectionsInfo::PATH
PATH == <<"collinfo.json">>

PathChars == {"/", "a", ".", "?"}
SpecialSchemes == {"https:", "http:"}
Schemes == SpecialSchemes \cup {"mailto:"}
HostNames == {CDX_HOST, WARC_HOST, "example.com", "INDEX.COMMONCRAWL.ORG"}

\* The url parser lower-cases the host of a special scheme.
ToLower(tok) == IF tok = "INDEX.COMMONCRAWL.ORG" THEN CDX_HOST ELSE tok

RECURSIVE SkipSlashes(_)
SkipSlashes(s) ==
    IF s # <<>> /\ Head(s) = "/" THEN SkipSlashes(Tail(s)) ELSE s

\* The longest prefix of s holding no lexeme of stop.
RECURSIVE TakeUntil(_, _)
TakeUntil(s, stop) ==
    IF s = <<>> \/ Head(s) \in stop THEN <<>>
    ELSE <<Head(s)>> \o TakeUntil(Tail(s), stop)

DropUntil(s, stop) == SubSeq(s, Len(TakeUntil(s, stop)) + 1, Len(s))

\* The segments of a path, split at "/".
RECURSIVE Split(_)
Split(s) ==
    IF s = <<>> THEN << <<>> >>
    ELSE IF Head(s) = "/" THEN << <<>> >> \o Split(Tail(s))
    ELSE LET r == Split(Tail(s)) IN << <<Head(s)>> \o r[1] >> \o Tail(r)

\* The parser drops "." segments and lets ".." remove the segment before it;
\* a dot segment at the end leaves an empty last segment.
RECURSIVE RemoveDots(_, _)
RemoveDots(segs, out) ==
    IF segs = <<>> THEN out
    ELSE LET seg == Head(segs)
             last == Len(segs) = 1
             tailSeg == IF last THEN << <<>> >> ELSE <<>>
         IN  IF seg = <<".", ".">>
             THEN RemoveDots(Tail(segs),
                    (IF out = <<>> THEN out ELSE SubSeq(out, 1, Len(out) - 1)) \o tailSeg)
             ELSE IF seg = <<".">>
             THEN RemoveDots(Tail(segs), out \o tailSeg)
             ELSE RemoveDots(Tail(segs), Append(out, seg))

RECURSIVE Join(_)
Join(segs) ==
    IF segs = <<>> THEN <<>> ELSE <<"/">> \o Head(segs) \o Join(Tail(segs))

\* The path of a URL with an authority, from what follows the host: the
\* query is cut off, the segments are normalised, and the result starts
\* with "/" (a special scheme's empty path is "/").
ParsePath(rest, special) ==
    LET p == TakeUntil(rest, {"?"})
    IN  IF p = <<>> THEN (IF special THEN <<"/">> ELSE <<>>)
        ELSE Join(RemoveDots(Split(Tail(p)), <<>>))

ParsedUrl(hasHost, host, path) ==
    [ok |-> TRUE, err |-> "", hasHost |-> hasHost, host |-> host, path |-> path]
ParseError(e) ==
    [ok |-> FALSE, err |-> e, hasHost |-> FALSE, host |-> <<>>, path |-> <<>>]

\* reqwest::Url::parse, as far as host_str() and path() show it.
Parse(s) ==
    IF s = <<>> \/ Head(s) \notin Schemes
    THEN ParseError("relative URL without a base")
    ELSE IF Head(s) \in SpecialSchemes
    THEN LET a == SkipSlashes(Tail(s))
             h == TakeUntil(a, {"/", "?"})
         IN  IF h = <<>> THEN ParseError("empty host")
             ELSE ParsedUrl(TRUE, [i \in 1..Len(h) |-> ToLower(h[i])],
                            ParsePath(DropUntil(a, {"/", "?"}), TRUE))
    ELSE LET t == Tail(s)
         IN  IF Len(t) >= 2 /\ t[1] = "/" /\ t[2] = "/"
             THEN LET a == SubSeq(t, 3, Len(t))
                      h == TakeUntil(a, {"/", "?"})
                  IN  ParsedUrl(h # <<>>, h, ParsePath(DropUntil(a, {"/", "?"}), FALSE))
             ELSE ParsedUrl(FALSE, <<>>, TakeUntil(t, {"?"}))

UrlCDX(path) == [variant |-> "CDX", path |-> path]
UrlWARC(path) == [variant |-> "WARC", path |-> path]

\* impl fmt::Display for Url
UrlToString(u) ==
    IF u.variant = "CDX"
    THEN <<"https:", "/", "/", CDX_HOST, "/">> \o u.path
    ELSE <<"https:", "/", "/", WARC_HOST, "/">> \o u.path

\* Url::from_string without the host whitelist: any host passes as CDX.
UrlFromString_AnyHost(s) ==
    LET url == Parse(s)
    IN  IF ~url.ok THEN Err(url.err)
        ELSE IF url.hasHost /\ url.host = <<WARC_HOST>> THEN Ok(UrlWARC(url.path))
        ELSE Ok(UrlCDX(url.path))

\* Url::from_string
UrlFromString(s) ==
    LET url == Parse(s)
    IN  IF ~url.ok THEN Err(url.err)
        ELSE IF url.hasHost /\ url.host = <<CDX_HOST>> THEN Ok(UrlCDX(url.path))
        ELSE IF url.hasHost /\ url.host = <<WARC_HOST>> THEN Ok(UrlWARC(url.path))
        ELSE Err("invalid domain")

\* The input strings: an optional scheme, optional "//", an optional host
\* name, and up to MaxRest further lexemes.
UrlStrings ==
    { sch \o sl \o h \o r :
        sch \in {<<>>} \cup { <<x>> : x \in Schemes },
        sl \in {<<>>, <<"/", "/">>},
        h \in {<<>>} \cup { <<x>> : x \in HostNames },
        r \in SeqsUpTo(PathChars, MaxRest) }

Paths == SeqsUpTo(PathChars, MaxPath) \cup {PATH}
Urls == { UrlCDX(p) : p \in Paths } \cup { UrlWARC(p) : p \in Paths }

\* -------------------------------------------------------- ContentType
Charsets == {"UTF8", "UTF16"}

\* impl fmt::Display for Charset
CharsetToString(c) == IF c = "UTF8" THEN <<"utf-8">> ELSE <<"utf-16">>

JSON == [tag |-> "JSON", charset |-> "none"]
TEXT(charset) == [tag |-> "TEXT", charset |-> charset]
ContentTypes == {JSON} \cup { TEXT(c) : c \in Charsets }

\* impl fmt::Display for ContentType
ContentTypeToString(c) ==
    IF c.tag = "JSON" THEN <<"application/json">>
    ELSE <<"text/plain; charset=">> \o CharsetToString(c.charset)

\* ContentType::from_string with the charsets of its two TEXT arms swapped.
ContentTypeFromString_Swapped(s) ==
    IF s = <<"application/json">> THEN Ok(JSON)
    ELSE IF s = <<"text/plain; charset=", "utf-8">> THEN Ok(TEXT("UTF16"))
    ELSE IF s = <<"text/plain; charset=", "utf-16">> THEN Ok(TEXT("UTF8"))
    ELSE Err("invalid content-type")

\* ContentType::from_string
ContentTypeFromString(s) ==
    IF s = <<"application/json">> THEN Ok(JSON)
    ELSE IF s = <<"text/plain; charset=", "utf-8">> THEN Ok(TEXT("UTF8"))
    ELSE IF s = <<"text/plain; charset=", "utf-16">> THEN Ok(TEXT("UTF16"))
    ELSE Err("invalid content-type")

CTLexemes == {"application/json", "text/plain; charset=", "utf-8", "utf-16", " "}
CTStrings == SeqsUpTo(CTLexemes, MaxCTLen)

\* ------------------------------------------------------------ Fetcher
\* HeaderValue::from_str refuses a string holding a byte that is not
\* visible ASCII.
HeaderValueFromStr(s) ==
    IF \E i \in 1..Len(s) : s[i] \in {"\n", "\r"}
    THEN Err("failed to parse header value")
    ELSE Ok(s)

Request(url, accept) == [url |-> url, accept |-> accept]

\* A response body: a complete JSON array, a JSON array cut short, or
\* bytes that are no JSON. An element of an array is an object holding
\* every field of CollectionInfo, one holding every field of CDXItem, or
\* any other JSON value.
ElemShapes == {"CollectionInfo", "CDXItem", "other"}
Bodies ==
    { [form |-> f, elems |-> e] :
        f \in {"array", "truncated"}, e \in SeqsUpTo(ElemShapes, MaxItems) }
    \cup { [form |-> "garbage", elems |-> <<>>] }

Statuses == {200, 204, 404, 503}

NoNet == [kind |-> "none", status |-> 0, body |-> <<>>, copyOk |-> FALSE]
NetFailure == [kind |-> "transport", status |-> 0, body |-> <<>>, copyOk |-> FALSE]
NetResponded(status, body, copyOk) ==
    [kind |-> "response", status |-> status, body |-> body, copyOk |-> copyOk]

\* Fetcher::exec taking every 2xx status for success.
ExecResult_Any2xx(n) ==
    IF n.kind = "transport" THEN Err("error sending request")
    ELSE IF n.status < 200 \/ n.status > 299 THEN ErrStatus(n.status)
    ELSE IF ~n.copyOk THEN Err("error reading body")
    ELSE Ok(n.body)

\* Fetcher::exec from the answer to send() on: the status check and the
\* copy of the body.
ExecResult(n) ==
    IF n.kind = "transport" THEN Err("error sending request")
    ELSE IF n.status # 200 THEN ErrStatus(n.status)
    ELSE IF ~n.copyOk THEN Err("error reading body")
    ELSE Ok(n.body)

\* FromJson::from_json_bytes for a Vec of shape: all of the body or nothing.
FromJsonBytes(b, shape) ==
    IF b.form = "array" /\ \A i \in 1..Len(b.elems) : b.elems[i] = shape
    THEN Ok([items |-> b.elems])
    ELSE Err("decode failed")

\* CollectionsInfo::url
CollectionsInfoUrl == UrlCDX(PATH)

\* CollectionsInfo::fetch keeping the elements that decode and dropping
\* the rest.
CollectionsInfoFetchResult_Partial(r) ==
    IF r.kind = "err" THEN r
    ELSE Ok([items |-> SelectSeq(r.val.elems, LAMBDA e : e = "CollectionInfo")])

\* CollectionsInfo::fetch after fetcher.exec()
CollectionsInfoFetchResult(r) ==
    IF r.kind = "err" THEN r ELSE FromJsonBytes(r.val, "CollectionInfo")

\* CDXItems::fetch using the path as given.
StripLeadingSlash_Kept(path) == path

\* CDXItems::fetch: the path without its leading "/"
StripLeadingSlash(path) ==
    IF path # <<>> /\ Head(path) = "/" THEN Tail(path) ELSE path

CDXItemsFetchUrl(path) == UrlWARC(StripLeadingSlash(path))

\* CDXItems::fetch after fetcher.exec()
CDXItemsFetchResult(r) ==
    IF r.kind = "err" THEN r ELSE FromJsonBytes(r.val, "CDXItem")

FetchPaths == SeqsUpTo({"/", "a"}, MaxFetchPath)
FetchUrls == { UrlCDX(p) : p \in FetchPaths } \cup { UrlWARC(p) : p \in FetchPaths }

\* --------------------------------------------------------- CDXQuerier
\* A u64 timestamp as its decimal digits.
T2020 == <<2, 0, 2, 0, 0, 1, 0, 1, 0, 0, 0, 0, 0, 0>>
T2019 == <<2, 0, 1, 9, 0, 1, 0, 1, 0, 0, 0, 0, 0, 0>>
T15 == <<1, 0, 0, 0, 0, 0, 0, 0, 0, 0, 0, 0, 0, 0, 0>>
Y2019 == <<2, 0, 1, 9>>
Timestamps == {T2020, T2019, T15, Y2019}

\* CDXQuerier::set_from, set_to, set_page, set_page_size: unreachable!()
CDXQuerierSetFrom(from) == Panic
CDXQuerierSetTo(to) == Panic
CDXQuerierSetPage(page) == Panic
CDXQuerierSetPageSize(page_size) == Panic

\* -------------------------------------------------------------- state
VARIABLES
    pc,         \* "idle", "waiting" (a request is in flight) or "done"
    op,         \* the operation called
    arg,        \* its argument
    result,     \* what it returned
    sent,       \* the requests the call has sent
    net,        \* how the network answered
    lastFrom    \* the last value handed to set_from, <<>> if none

vars == <<pc, op, arg, result, sent, net, lastFrom>>

Init ==
    /\ pc = "idle"
    /\ op = "none"
    /\ arg = <<>>
    /\ result = NoResult
    /\ sent = <<>>
    /\ net = NoNet
    /\ lastFrom = <<>>

\* A call that returns at once, without the network.
Returns(name, a, r) ==
    /\ pc = "idle"
    /\ op' = name
    /\ arg' = a
    /\ result' = r
    /\ pc' = "done"
    /\ UNCHANGED <<sent, net>>

CallUrlToString ==
    \E u \in Urls :
        Returns("Url::to_string", u, Ok(UrlToString(u))) /\ lastFrom' = <<>>

CallUrlFromString ==
    \E s \in UrlStrings :
        Returns("Url::from_string", s, UrlFromString(s)) /\ lastFrom' = <<>>

CallContentTypeToString ==
    \E c \in ContentTypes :
        Returns("ContentType::to_string", c, Ok(ContentTypeToString(c)))
        /\ lastFrom' = <<>>

CallContentTypeFromString ==
    \E s \in CTStrings :
        Returns("ContentType::from_string", s, ContentTypeFromString(s))
        /\ lastFrom' = <<>>

\* Fetcher::exec up to send(): the header value, then one GET request.
FetcherExecSend(url, content_type) ==
    LET h == HeaderValueFromStr(ContentTypeToString(content_type))
    IN  IF h.kind = "err"
        THEN /\ pc' = "done"
             /\ result' = h
             /\ sent' = sent
        ELSE /\ pc' = "waiting"
             /\ result' = NoResult
             /\ sent' = Append(sent, Request(UrlToString(url), h.val))

CallFetcherExec ==
    /\ pc = "idle"
    /\ \E u \in FetchUrls, c \in ContentTypes :
        /\ op' = "Fetcher::exec"
        /\ arg' = [url |-> u, content_type |-> c]
        /\ FetcherExecSend(u, c)
    /\ UNCHANGED net
    /\ lastFrom' = <<>>

\* CollectionsInfo::fetch up to send(): Fetcher::json_fetcher(url).exec()
CallCollectionsInfoFetch ==
    /\ pc = "idle"
    /\ op' = "CollectionsInfo::fetch"
    /\ arg' = <<>>
    /\ FetcherExecSend(CollectionsInfoUrl, JSON)
    /\ UNCHANGED net
    /\ lastFrom' = <<>>

\* CDXItems::fetch up to send()
CallCDXItemsFetch ==
    /\ pc = "idle"
    /\ \E path \in FetchPaths :
        /\ op' = "CDXItems::fetch"
        /\ arg' = path
        /\ FetcherExecSend(CDXItemsFetchUrl(path), JSON)
    /\ UNCHANGED net
    /\ lastFrom' = <<>>

\* What the operation in flight returns once Fetcher::exec has returned r.
Finish(r) ==
    IF op = "CollectionsInfo::fetch" THEN CollectionsInfoFetchResult(r)
    ELSE IF op = "CDXItems::fetch" THEN CDXItemsFetchResult(r)
    ELSE r

\* A call that sends the request again when the first attempt fails.
Complete_Retry(n) ==
    IF Finish(ExecResult(n)).kind = "err" /\ Len(sent) < 2
    THEN /\ net' = n
         /\ result' = NoResult
         /\ pc' = "waiting"
         /\ sent' = Append(sent, sent[1])
    ELSE /\ net' = n
         /\ result' = Finish(ExecResult(n))
         /\ pc' = "done"
         /\ sent' = sent

\* The rest of the call once send() has answered: no further request.
Complete(n) ==
    /\ net' = n
    /\ result' = Finish(ExecResult(n))
    /\ pc' = "done"
    /\ sent' = sent

\* send() fails.
NetTransportError ==
    /\ pc = "waiting"
    /\ Complete(NetFailure)
    /\ UNCHANGED <<op, arg, lastFrom>>

\* send() returns a response.
NetResponse ==
    /\ pc = "waiting"
    /\ \E status \in Statuses, body \in Bodies, copyOk \in BOOLEAN :
        Complete(NetResponded(status, body, copyOk))
    /\ UNCHANGED <<op, arg, lastFrom>>

CallSetFrom ==
    \E from \in Timestamps :
        Returns("CDXQuerier::set_from", from, CDXQuerierSetFrom(from))
        /\ lastFrom' = from

CallSetTo ==
    \E to \in Timestamps :
        Returns("CDXQuerier::set_to", to, CDXQuerierSetTo(to))
        /\ lastFrom' = lastFrom

CallSetPage ==
    \E page \in 0..MaxPage :
        Returns("CDXQuerier::set_page", page, CDXQuerierSetPage(page))
        /\ lastFrom' = lastFrom

CallSetPageSize ==
    \E page_size \in 0..MaxPage :
        Returns("CDXQuerier::set_page_size", page_size, CDXQuerierSetPageSize(page_size))
        /\ lastFrom' = lastFrom

\* The caller takes the result; the next call starts afresh.
Return ==
    /\ pc = "done"
    /\ pc' = "idle"
    /\ op' = "none"
    /\ arg' = <<>>
    /\ result' = NoResult
    /\ sent' = <<>>
    /\ net' = NoNet
    /\ UNCHANGED lastFrom

Next ==
    \/ CallUrlToString
    \/ CallUrlFromString
    \/ CallContentTypeToString
    \/ CallContentTypeFromString
    \/ CallFetcherExec
    \/ CallCollectionsInfoFetch
    \/ CallCDXItemsFetch
    \/ NetTransportError
    \/ NetResponse
    \/ CallSetFrom
    \/ CallSetTo
    \/ CallSetPage
    \/ CallSetPageSize
    \/ Return

Spec == Init /\ [][Next]_vars

\* ------------------------------------------------------------- claims
KnownHost(u) == u.ok /\ u.hasHost /\ u.host \in {<<CDX_HOST>>, <<WARC_HOST>>}

\* C1: for every Url value l, Url::from_string(Url::to_string(l)) succeeds
\* and returns l: the same variant and exactly the same path.
C1_RoundTrip ==
    (pc = "done" /\ op = "Url::to_string")
        => UrlFromString(result.val) = Ok(arg)

\* C2: for every valid URL string s with one of the two known hosts,
\* Url::to_string(Url::from_string(s)) is a URL with the host and the path
\* of s.
C2_ReproducesHostAndPath ==
    (pc = "done" /\ op = "Url::from_string" /\ result.kind = "ok")
        => LET back == Parse(UrlToString(result.val))
               orig == Parse(arg)
           IN  /\ back.ok
               /\ back.host = orig.host
               /\ back.path = orig.path

\* C3: a URL string whose host is neither of the two known hosts gets the
\* error "invalid domain" from Url::from_string and never a Url value; a Url
\* value is returned only for a parsed host equal to one of the two hosts,
\* with the variant of that host.
C3_InvalidDomain ==
    (pc = "done" /\ op = "Url::from_string")
        => LET u == Parse(arg)
           IN  /\ result.kind \in {"ok", "err"}
               /\ (u.ok /\ ~KnownHost(u)) => result = Err("invalid domain")
               /\ result.kind = "ok" =>
                    /\ KnownHost(u)
                    /\ u.host = <<CDX_HOST>> => result.val.variant = "CDX"
                    /\ u.host = <<WARC_HOST>> => result.val.variant = "WARC"

C3_Witness ==
    /\ pc = "done"
    /\ op = "Url::from_string"
    /\ Parse(arg).ok
    /\ Parse(arg).host = <<"example.com">>
    /\ result = Err("invalid domain")

\* C4: ContentType::to_string renders JSON, TEXT{UTF8} and TEXT{UTF16} as
\* "application/json", "text/plain; charset=utf-8" and
\* "text/plain; charset=utf-16"; ContentType::from_string takes each of
\* these back to its value and fails with "invalid content-type" on every
\* other string.
C4_Rendered(c) ==
    IF c = JSON THEN <<"application/json">>
    ELSE IF c = TEXT("UTF8") THEN <<"text/plain; charset=", "utf-8">>
    ELSE <<"text/plain; charset=", "utf-16">>

C4_ContentTypeInverse ==
    /\ (pc = "done" /\ op = "ContentType::to_string")
         => /\ result = Ok(C4_Rendered(arg))
            /\ ContentTypeFromString(result.val) = Ok(arg)
    /\ (pc = "done" /\ op = "ContentType::from_string")
         => IF \E c \in ContentTypes : arg = C4_Rendered(c)
            THEN result.kind = "ok" /\ C4_Rendered(result.val) = arg
            ELSE result = Err("invalid content-type")

C4_Witness ==
    /\ pc = "done"
    /\ op = "ContentType::from_string"
    /\ arg = <<"text/plain; charset=", "utf-16">>
    /\ result = Ok(TEXT("UTF16"))

\* C5: Fetcher::exec returns Ok with the body only when the response status
\* is exactly 200; for every other status it returns an error carrying the
\* status code and no body, and a failure of send() is returned as an error.
C5_OnlyStatus200 ==
    (pc = "done" /\ op = "Fetcher::exec")
        => /\ result.kind \in {"ok", "err"}
           /\ result.kind = "ok" =>
                /\ net.kind = "response"
                /\ net.status = 200
                /\ result.val = net.body
           /\ (net.kind = "response" /\ net.status # 200) =>
                /\ result.kind = "err"
                /\ result.code = net.status
                /\ result.val = <<>>
           /\ net.kind = "transport" => result.kind = "err"

C5_Witness ==
    /\ pc = "done"
    /\ op = "Fetcher::exec"
    /\ net.kind = "response"
    /\ net.status = 204
    /\ result = ErrStatus(204)

\* The number of decimal digits of a timestamp, and the order of two
\* timestamps, on their digits.
NumDigits(v) == Len(v)

RECURSIVE LexGreater(_, _)
LexGreater(a, b) ==
    /\ a # <<>>
    /\ \/ Head(a) > Head(b)
       \/ Head(a) = Head(b) /\ LexGreater(Tail(a), Tail(b))

Greater(a, b) == Len(a) > Len(b) \/ (Len(a) = Len(b) /\ LexGreater(a, b))

\* C6: setting the query time range fails with the error invalid_range,
\* returned as a Result error, whenever from or to has more than 14
\* decimal digits or from > to.
C6_InvalidRange ==
    /\ (pc = "done" /\ op = "CDXQuerier::set_from" /\ NumDigits(arg) > 14)
         => result = Err("invalid range")
    /\ (pc = "done" /\ op = "CDXQuerier::set_to"
          /\ (NumDigits(arg) > 14 \/ (lastFrom # <<>> /\ Greater(lastFrom, arg))))
         => result = Err("invalid range")

\* C7: setting the page size to 0 fails with the error invalid_page_size,
\* returned as a Result error, whatever the page number.
C7_InvalidPageSize ==
    (pc = "done" /\ op = "CDXQuerier::set_page_size" /\ arg = 0)
        => result = Err("invalid page size")

\* C8: CollectionsInfo::fetch requests exactly
\* https://index.commoncrawl.org/collinfo.json with Accept: application/json
\* and has no partial success: an error of the Fetcher is returned as it is,
\* a body that does not decode as a whole gives an error, and a
\* CollectionsInfo is returned only after a 200 response whose whole body
\* decodes.
C8_WholeBody(b) ==
    b.form = "array" /\ \A i \in 1..Len(b.elems) : b.elems[i] = "CollectionInfo"

C8_CatalogAllOrNothing ==
    (op = "CollectionsInfo::fetch")
        => /\ sent = << Request(<<"https:", "/", "/", "index.commoncrawl.org",
                                  "/", "collinfo.json">>,
                                <<"application/json">>) >>
           /\ pc = "done" =>
                /\ result.kind \in {"ok", "err"}
                /\ result.kind = "ok" <=>
                     /\ net.kind = "response"
                     /\ net.status = 200
                     /\ net.copyOk
                     /\ C8_WholeBody(net.body)
                /\ result.kind = "ok" => result.val.items = net.body.elems
                /\ result.kind = "err" => result.val = <<>>
                /\ (net.kind = "response" /\ net.status # 200)
                     => result = ErrStatus(net.status)
                /\ (net.kind = "transport" \/ ~net.copyOk \/ net.status # 200)
                     => result = ExecResult(net)

C8_Witness ==
    /\ pc = "done"
    /\ op = "CollectionsInfo::fetch"
    /\ net.kind = "response"
    /\ net.status = 200
    /\ net.copyOk
    /\ net.body.form = "array"
    /\ net.body.elems = <<"CollectionInfo", "other">>
    /\ result = Err("decode failed")

\* C9 as stated: CDXItems::fetch(path) removes a leading "/" from path,
\* requests the WARC host with JSON content negotiation, so that "/p" and
\* "p" request the same URL, and on a 200 response returns the response
\* body to the caller as raw bytes, unchanged.
C9_Requested(path) ==
    << Request(<<"https:", "/", "/", "commoncrawl.s3.amazonaws.com", "/">>
                 \o (IF path # <<>> /\ Head(path) = "/" THEN Tail(path) ELSE path),
               <<"application/json">>) >>

C9_ReturnsRawBytes ==
    (op = "CDXItems::fetch")
        => /\ sent = C9_Requested(arg)
           /\ (pc = "done" /\ net.kind = "response" /\ net.status = 200 /\ net.copyOk)
                => result = Ok(net.body)

\* C9 as amended: CDXItems::fetch(path) removes a leading "/" from path,
\* requests the WARC host with JSON content negotiation, so that "/p" and
\* "p" request the same URL, and on a 200 response decodes the body as a
\* JSON array of CDXItem: it returns the decoded items when the whole body
\* decodes and an error otherwise, never the raw bytes.
C9_FetchDecodes ==
    (op = "CDXItems::fetch")
        => /\ sent = C9_Requested(arg)
           /\ (arg = <<>> \/ Head(arg) # "/")
                => sent[1].url = UrlToString(CDXItemsFetchUrl(<<"/">> \o arg))
           /\ (pc = "done" /\ net.kind = "response" /\ net.status = 200 /\ net.copyOk)
                => /\ result # Ok(net.body)
                   /\ IF /\ net.body.form = "array"
                         /\ \A i \in 1..Len(net.body.elems) : net.body.elems[i] = "CDXItem"
                      THEN result = Ok([items |-> net.body.elems])
                      ELSE result = Err("decode failed")

C9_Witness ==
    /\ pc = "done"
    /\ op = "CDXItems::fetch"
    /\ arg = <<"/", "a">>
    /\ sent[1].url = <<"https:", "/", "/", WARC_HOST, "/", "a">>
    /\ net.status = 200
    /\ net.copyOk
    /\ net.body = [form |-> "array", elems |-> <<"CDXItem", "CDXItem">>]
    /\ result.kind = "ok"

\* C10: a call of Fetcher::exec, CollectionsInfo::fetch or CDXItems::fetch
\* sends at most one request and never retries: once send() has answered,
\* with a status other than 200, a transport error or a body that does not
\* decode, the call ends and nothing more is sent; a call that ends without
\* waiting for the network (the header value was refused) has sent nothing.
C10_Step ==
    /\ Len(sent') <= 1
    /\ pc = "waiting" => (pc' = "done" /\ sent' = sent)
    /\ pc = "done" => sent' = <<>>
    /\ (pc = "idle" /\ pc' = "done") => sent' = <<>>
    /\ (pc = "idle" /\ pc' = "waiting") => Len(sent') = 1

C10_AtMostOneRequest == [][C10_Step]_vars

C10_Witness ==
    /\ pc = "done"
    /\ op = "CDXItems::fetch"
    /\ net.kind = "response"
    /\ net.status = 200
    /\ result = Err("decode failed")
    /\ Len(sent) = 1

=============================================================================
